---- MODULE Spec2Model ----
(***************************************************************************)
(* A model of lsgres (src/main.rs): the GRES string parsers, the           *)
(* preemption correlator, the node view builder and the pipeline driver.   *)
(*                                                                         *)
(* Rust strings are modelled as sequences of one-character strings, so     *)
(* that prefix tests, splitting, searching and digit parsing are computed  *)
(* and not assumed.  Positions are 1-based: position p here is byte        *)
(* offset p - 1 in the Rust source (all modelled characters are ASCII).    *)
(* Hostnames and partition names are only ever compared for equality and   *)
(* are kept as plain strings.                                              *)
(***************************************************************************)
EXTENDS Integers, Sequences, FiniteSets, TLC

VARIABLES
    pc,              \* position of main, or of the function under check
    cli,             \* Cli: [gres, partition, style], each an Option
    overflow_checks, \* build profile: TRUE = debug (overflow panics)
    slurm_nodes,     \* SlurmNodes.nodes as returned by query_nodes
    slurm_jobs,      \* SlurmJobs.jobs as returned by query_jobs
    preempted_gpus,  \* Vec<GpuAllocation> built by process_preempted_jobs
    node_iter,       \* how many nodes the lazy iterator chain has consumed
    tabled_nodes,    \* Vec<TableNode> collected so far
    stdout,          \* sequence of tables written to standard output
    arg,             \* argument(s) of the function under check
    ret              \* its return value

vars == <<pc, cli, overflow_checks, slurm_nodes, slurm_jobs, preempted_gpus,
          node_iter, tabled_nodes, stdout, arg, ret>>

(***************************************************************************)
(* Option and Result                                                       *)
(***************************************************************************)
None == [some |-> FALSE]
Some(v) == [some |-> TRUE, val |-> v]
unwrap_or(o, d) == IF o.some THEN o.val ELSE d

Ok(v) == [kind |-> "Ok", val |-> v]
Err(e) == [kind |-> "Err", err |-> e]
Panic(e) == [kind |-> "panic", err |-> e]

(***************************************************************************)
(* Characters and strings                                                  *)
(***************************************************************************)
Digits == {"0", "1", "2", "3", "4", "5", "6", "7", "8", "9"}

Letters ==
    {"a", "b", "c", "d", "e", "f", "g", "h", "i", "j", "k", "l", "m",
     "n", "o", "p", "q", "r", "s", "t", "u", "v", "w", "x", "y", "z",
     "A", "B", "C", "D", "E", "F", "G", "H", "I", "J", "K", "L", "M",
     "N", "O", "P", "Q", "R", "S", "T", "U", "V", "W", "X", "Y", "Z"}

\* char::is_digit(10)
is_digit(c) == c \in Digits

\* the regex class \w restricted to ASCII
WordChars == Digits \cup Letters \cup {"_"}
is_word(c) == c \in WordChars

DigitVal(c) ==
    CASE c = "0" -> 0 [] c = "1" -> 1 [] c = "2" -> 2 [] c = "3" -> 3
      [] c = "4" -> 4 [] c = "5" -> 5 [] c = "6" -> 6 [] c = "7" -> 7
      [] c = "8" -> 8 [] c = "9" -> 9

DigitChar(d) ==
    CASE d = 0 -> "0" [] d = 1 -> "1" [] d = 2 -> "2" [] d = 3 -> "3"
      [] d = 4 -> "4" [] d = 5 -> "5" [] d = 6 -> "6" [] d = 7 -> "7"
      [] d = 8 -> "8" [] d = 9 -> "9"

Min(S) == CHOOSE m \in S : \A n \in S : m <= n

Suffix(s, i) == SubSeq(s, i, Len(s))

\* str::starts_with
starts_with(s, pat) == Len(s) >= Len(pat) /\ SubSeq(s, 1, Len(pat)) = pat

\* str::find: the position of the first occurrence of pat, 0 for None
find(s, pat) ==
    LET hits == {i \in 1..(Len(s) - Len(pat) + 1) :
                    SubSeq(s, i, i + Len(pat) - 1) = pat}
    IN IF hits = {} THEN 0 ELSE Min(hits)

\* str::contains
contains(s, pat) == \E i \in 1..(Len(s) - Len(pat) + 1) :
                        SubSeq(s, i, i + Len(pat) - 1) = pat

\* str::split(c).collect(): always at least one segment
RECURSIVE split(_, _)
split(s, c) ==
    LET i == find(s, <<c>>)
    IN IF i = 0 THEN <<s>>
       ELSE <<SubSeq(s, 1, i - 1)>> \o split(Suffix(s, i + 1), c)

\* chars().take_while(p).collect() for p = is_digit
RECURSIVE take_while_digit(_)
take_while_digit(s) ==
    IF s # <<>> /\ is_digit(Head(s))
    THEN <<Head(s)>> \o take_while_digit(Tail(s))
    ELSE <<>>

\* the number a sequence of decimal digits denotes
RECURSIVE DecimalValue(_)
DecimalValue(ds) ==
    IF ds = <<>> THEN 0
    ELSE 10 * DecimalValue(SubSeq(ds, 1, Len(ds) - 1)) + DigitVal(ds[Len(ds)])

RECURSIVE StripZeros(_)
StripZeros(ds) ==
    IF ds # <<>> /\ Head(ds) = "0" THEN StripZeros(Tail(ds)) ELSE ds

\* ds <= max for two digit sequences of the same length
RECURSIVE LexLeq(_, _)
LexLeq(ds, max) ==
    \/ ds = <<>>
    \/ DigitVal(Head(ds)) < DigitVal(Head(max))
    \/ Head(ds) = Head(max) /\ LexLeq(Tail(ds), Tail(max))

\* u32::MAX = 4294967295 and usize::MAX = 18446744073709551615 (64-bit),
\* kept as digit sequences: the type's width decides which digit strings parse
U32MaxDigits == <<"4", "2", "9", "4", "9", "6", "7", "2", "9", "5">>
UsizeMaxDigits ==
    <<"1", "8", "4", "4", "6", "7", "4", "4", "0", "7",
      "3", "7", "0", "9", "5", "5", "1", "6", "1", "5">>

Fits(ds, max) ==
    LET t == StripZeros(ds)
    IN \/ Len(t) < Len(max)
       \/ Len(t) = Len(max) /\ LexLeq(t, max)

\* str::parse::<u32>() / ::<usize>(): an optional '+', then one or more
\* digits, the value within the type's range; anything else is an error
parse_unsigned(s, max) ==
    LET ds == IF s # <<>> /\ Head(s) = "+" THEN Tail(s) ELSE s
    IN IF ds # <<>> /\ (\A i \in 1..Len(ds) : is_digit(ds[i])) /\ Fits(ds, max)
       THEN Some(DecimalValue(ds))
       ELSE None

parse_u32(s) == parse_unsigned(s, U32MaxDigits)
parse_usize(s) == parse_unsigned(s, UsizeMaxDigits)

\* format!("{}", n) for an unsigned n
RECURSIVE Decimal(_)
Decimal(n) ==
    IF n < 10 THEN <<DigitChar(n)>>
    ELSE Decimal(n \div 10) \o <<DigitChar(n % 10)>>

\* the strings over an alphabet of at most n characters
StringsUpTo(alphabet, n) == UNION {[1..k -> alphabet] : k \in 0..n}

(***************************************************************************)
(* count_gpu_indices                                                       *)
(***************************************************************************)
\* One iteration of the loop over idx_spec.split(','): what `part` adds to
\* count.  The u32 sum `end - start + 1` overflows only for a range that
\* spans 2^32 indices; the index specs of the model stay far below that.
count_part_no_plus_one(part) ==
    LET dash_pos == find(part, <<"-">>)
    IN IF dash_pos # 0
       THEN LET start == unwrap_or(parse_u32(SubSeq(part, 1, dash_pos - 1)), 0)
                end == unwrap_or(parse_u32(Suffix(part, dash_pos + 1)), 0)
            IN IF end >= start THEN end - start ELSE 0
       ELSE IF parse_u32(part).some THEN 1 ELSE 0

count_part(part) ==
    LET dash_pos == find(part, <<"-">>)
    IN IF dash_pos # 0
       THEN LET start == unwrap_or(parse_u32(SubSeq(part, 1, dash_pos - 1)), 0)
                end == unwrap_or(parse_u32(Suffix(part, dash_pos + 1)), 0)
            IN IF end >= start THEN end - start + 1 ELSE 0
       ELSE IF parse_u32(part).some THEN 1 ELSE 0

RECURSIVE count_parts(_)
count_parts(parts) ==
    IF parts = <<>> THEN 0
    ELSE count_part(Head(parts)) + count_parts(Tail(parts))

count_gpu_indices(idx_spec) == count_parts(split(idx_spec, ","))

(***************************************************************************)
(* Specification SpecIdx: count_gpu_indices on every index spec of at most *)
(* MaxIdxLen characters over IdxAlphabet.                                  *)
(***************************************************************************)
MaxIdxLen == 5
IdxAlphabet == {"0", "2", "7", ",", "-"}

Idle ==
    /\ cli = [gres |-> None, partition |-> None, style |-> None]
    /\ overflow_checks = TRUE
    /\ slurm_nodes = <<>>
    /\ slurm_jobs = <<>>
    /\ preempted_gpus = <<>>
    /\ node_iter = 0
    /\ tabled_nodes = <<>>
    /\ stdout = <<>>

InitIdx ==
    /\ Idle
    /\ pc = "call"
    /\ arg \in StringsUpTo(IdxAlphabet, MaxIdxLen)
    /\ ret = None

CallCountGpuIndices ==
    /\ pc = "call"
    /\ ret' = Some(count_gpu_indices(arg))
    /\ pc' = "ret"
    /\ UNCHANGED <<cli, overflow_checks, slurm_nodes, slurm_jobs,
                   preempted_gpus, node_iter, tabled_nodes, stdout, arg>>

SpecIdx == InitIdx /\ [][CallCountGpuIndices]_vars

\* --- C3 -----------------------------------------------------------------
IsNumber(e) == e # <<>> /\ \A i \in 1..Len(e) : is_digit(e[i])

IsRange(e) ==
    \E k \in 1..Len(e) :
        /\ e[k] = "-"
        /\ IsNumber(SubSeq(e, 1, k - 1))
        /\ IsNumber(Suffix(e, k + 1))

\* the entries of a comma-separated list, by the positions of its commas
CommaCuts(s) == {0, Len(s) + 1} \cup {i \in 1..Len(s) : s[i] = ","}
NextCut(s, c) == Min({d \in CommaCuts(s) : d > c})
EntryAt(s, c) == SubSeq(s, c + 1, NextCut(s, c) - 1)
EntryStarts(s) == CommaCuts(s) \ {Len(s) + 1}

WellFormedIdx(s) ==
    \A c \in EntryStarts(s) : IsNumber(EntryAt(s, c)) \/ IsRange(EntryAt(s, c))

EntryCount(e) ==
    IF IsNumber(e) THEN 1
    ELSE LET k == CHOOSE k \in 1..Len(e) : e[k] = "-"
             a == DecimalValue(SubSeq(e, 1, k - 1))
             b == DecimalValue(Suffix(e, k + 1))
         IN IF b >= a THEN b - a + 1 ELSE 0

RECURSIVE SumOver(_, _)
SumOver(s, starts) ==
    IF starts = {} THEN 0
    ELSE LET c == CHOOSE c \in starts : TRUE
         IN EntryCount(EntryAt(s, c)) + SumOver(s, starts \ {c})

\* C3: for a well-formed index spec (a comma-separated list of integers and
\* ranges a-b) count_gpu_indices returns the sum of 1 per integer and
\* b - a + 1 per range with b >= a; a range with b < a adds 0.
C3_CountIsSum ==
    (pc = "ret" /\ WellFormedIdx(arg)) =>
        ret = Some(SumOver(arg, EntryStarts(arg)))

\* "0,2-7" counts 7
C3_Witness ==
    /\ pc = "ret"
    /\ arg = <<"0", ",", "2", "-", "7">>
    /\ ret = Some(7)

\* a reversed range adds 0 and the rest of the list still counts
C3_WitnessReversed ==
    /\ pc = "ret"
    /\ arg = <<"7", "-", "2", ",", "0">>
    /\ ret = Some(1)

(***************************************************************************)
(* parse_gpu_allocation                                                    *)
(***************************************************************************)
GpuAllocation(node, gpus) == [node |-> node, gpus |-> gpus]

GpuTag == <<"g", "p", "u">>
IdxOpen == <<"(", "I", "D", "X", ":">>

\* the fallback: the leading digits of parts[2], parsed, kept when > 0
count_field_allocation(parts, node) ==
    LET count_str == take_while_digit(parts[3])
        parsed == parse_u32(count_str)
    IN IF parsed.some /\ parsed.val > 0
       THEN Some(GpuAllocation(node, parsed.val))
       ELSE None

parse_gpu_allocation_count_field_first(gres_str, node) ==
    IF ~starts_with(gres_str, GpuTag) THEN None
    ELSE LET parts == split(gres_str, ":")
         IN IF Len(parts) < 3 THEN None
            ELSE LET fallback == count_field_allocation(parts, node)
                     idx_start == find(gres_str, IdxOpen)
                     idx_end == IF idx_start = 0 THEN 0
                                ELSE find(Suffix(gres_str, idx_start), <<")">>)
                     idx_spec == SubSeq(gres_str, idx_start + 5,
                                        idx_start + idx_end - 2)
                 IN IF fallback.some THEN fallback
                    ELSE IF idx_start # 0 /\ idx_end # 0
                              /\ count_gpu_indices(idx_spec) > 0
                    THEN Some(GpuAllocation(node, count_gpu_indices(idx_spec)))
                    ELSE None

parse_gpu_allocation(gres_str, node) ==
    IF ~starts_with(gres_str, GpuTag) THEN None
    ELSE LET parts == split(gres_str, ":")
         IN IF Len(parts) < 3 THEN None
            ELSE LET idx_start == find(gres_str, IdxOpen)
                     \* position of ')' within gres_str[idx_start..]
                     idx_end == IF idx_start = 0 THEN 0
                                ELSE find(Suffix(gres_str, idx_start), <<")">>)
                     idx_spec == SubSeq(gres_str, idx_start + 5,
                                        idx_start + idx_end - 2)
                 IN IF idx_start # 0 /\ idx_end # 0
                       /\ count_gpu_indices(idx_spec) > 0
                    THEN Some(GpuAllocation(node, count_gpu_indices(idx_spec)))
                    ELSE count_field_allocation(parts, node)

(***************************************************************************)
(* Specification SpecParse: parse_gpu_allocation on detail strings made of *)
(* a head, a count field of at most MaxCountLen characters and an optional *)
(* index list of at most MaxSpecLen characters, closed or left open.       *)
(***************************************************************************)
MaxCountLen == 2
MaxSpecLen == 3

DetailHeads ==
    { <<"g", "p", "u", ":", "a", ":">>,
      <<"g", "p", "u", ":">>,
      <<"g", "p", "u">>,
      <<"c", "p", "u", ":", "a", ":">> }
CountAlphabet == {"0", "2", "x"}
SpecAlphabet == {"0", "1", "-", ")"}
IdxClose == {<<>>, <<")">>}

DetailStrings ==
    { h \o c : h \in DetailHeads, c \in StringsUpTo(CountAlphabet, MaxCountLen) }
    \cup
    { h \o c \o IdxOpen \o x \o z :
        h \in DetailHeads, c \in StringsUpTo(CountAlphabet, MaxCountLen),
        x \in StringsUpTo(SpecAlphabet, MaxSpecLen), z \in IdxClose }

Hostnames == {"n1", "n2"}

InitParse ==
    /\ Idle
    /\ pc = "call"
    /\ arg \in [gres_str : DetailStrings, node : Hostnames]
    /\ ret = None

CallParseGpuAllocation ==
    /\ pc = "call"
    /\ ret' = parse_gpu_allocation(arg.gres_str, arg.node)
    /\ pc' = "ret"
    /\ UNCHANGED <<cli, overflow_checks, slurm_nodes, slurm_jobs,
                   preempted_gpus, node_iter, tabled_nodes, stdout, arg>>

SpecParse == InitParse /\ [][CallParseGpuAllocation]_vars

\* --- C2 -----------------------------------------------------------------
ColonsOf(s) == {i \in 1..Len(s) : s[i] = ":"}

\* the third colon-separated segment of a string with at least two colons
ThirdSegment(s) ==
    LET c1 == Min(ColonsOf(s))
        c2 == Min(ColonsOf(s) \ {c1})
        rest == {c \in ColonsOf(s) : c > c2} \cup {Len(s) + 1}
    IN SubSeq(s, c2 + 1, Min(rest) - 1)

\* the length of the longest all-digit prefix
DigitPrefixLen(s) ==
    CHOOSE k \in 0..Len(s) :
        /\ \A i \in 1..k : is_digit(s[i])
        /\ k < Len(s) => ~is_digit(s[k + 1])

\* s contains "(IDX:<spec>)": the first "(IDX:" and the first ')' after it
IdxOpens(s) == {p \in 1..(Len(s) - 4) : SubSeq(s, p, p + 4) = IdxOpen}
IdxCloses(s) == {q \in 1..Len(s) : s[q] = ")" /\ q > Min(IdxOpens(s))}
HasIdxSpec(s) == IdxOpens(s) # {} /\ IdxCloses(s) # {}
IdxSpecOf(s) == SubSeq(s, Min(IdxOpens(s)) + 5, Min(IdxCloses(s)) - 1)

ExpectedAllocation(s, node) ==
    IF Len(s) < 3 \/ SubSeq(s, 1, 3) # GpuTag \/ Cardinality(ColonsOf(s)) < 2
    THEN None
    ELSE IF HasIdxSpec(s) /\ count_gpu_indices(IdxSpecOf(s)) > 0
    THEN Some(GpuAllocation(node, count_gpu_indices(IdxSpecOf(s))))
    ELSE LET seg == ThirdSegment(s)
             k == DigitPrefixLen(seg)
         IN IF k > 0 /\ DecimalValue(SubSeq(seg, 1, k)) > 0
            THEN Some(GpuAllocation(node, DecimalValue(SubSeq(seg, 1, k))))
            ELSE None

\* C2: parse_gpu_allocation returns None without the "gpu" prefix or with
\* fewer than 3 colon-separated segments; else the index count of
\* "(IDX:<spec>)" when it is positive, whatever the count field says; else
\* the leading decimal digits of the third segment when they form a positive
\* integer, and None otherwise.  Every allocation returned has gpus >= 1 and
\* the given node.
C2_ParseGpuAllocation ==
    pc = "ret" /\ "gres_str" \in DOMAIN arg =>
        /\ ret = ExpectedAllocation(arg.gres_str, arg.node)
        /\ ret.some => ret.val.gpus >= 1 /\ ret.val.node = arg.node

\* "gpu:a:0(IDX:0-1)": the index list (2) wins over the count field (0)
C2_Witness ==
    /\ pc = "ret"
    /\ "gres_str" \in DOMAIN arg
    /\ arg.gres_str = <<"g", "p", "u", ":", "a", ":", "0",
                        "(", "I", "D", "X", ":", "0", "-", "1", ")">>
    /\ arg.node = "n2"
    /\ ret = Some(GpuAllocation("n2", 2))

(***************************************************************************)
(* GresStatus::from_str                                                    *)
(***************************************************************************)
GresStatus(model, count) == [model |-> model, count |-> count]

NullSentinel == <<"(", "n", "u", "l", "l", ")">>

\* the end of the longest run of word characters (digits) starting at i;
\* i - 1 when s[i] is none: a greedy \w+ (\d+) needs the end to be >= i
RECURSIVE WordRunEnd(_, _)
WordRunEnd(s, i) ==
    IF i <= Len(s) /\ is_word(s[i]) THEN WordRunEnd(s, i + 1) ELSE i - 1

RECURSIVE DigitRunEnd(_, _)
DigitRunEnd(s, i) ==
    IF i <= Len(s) /\ is_digit(s[i]) THEN DigitRunEnd(s, i + 1) ELSE i - 1

\* (?P<model>\w+:\w+):(?P<count>\d+) matched at position i.  Each \w+ is
\* followed by ':', which is no word character, so only its longest run can
\* match; \d+ is last and greedy.  The result is the captures, or None.
RegexMatchAt(s, i) ==
    LET e1 == WordRunEnd(s, i)
        e2 == WordRunEnd(s, e1 + 2)
        e3 == DigitRunEnd(s, e2 + 2)
    IN IF /\ e1 >= i /\ e1 + 1 <= Len(s) /\ s[e1 + 1] = ":"
          /\ e2 >= e1 + 2 /\ e2 + 1 <= Len(s) /\ s[e2 + 1] = ":"
          /\ e3 >= e2 + 2
       THEN Some([model |-> SubSeq(s, i, e2), count |-> SubSeq(s, e2 + 2, e3)])
       ELSE None

\* Regex::captures: the leftmost match of an unanchored search
RE_captures(s) ==
    LET starts == {i \in 1..Len(s) : RegexMatchAt(s, i).some}
    IN IF starts = {} THEN None ELSE RegexMatchAt(s, Min(starts))

GresStatus_from_str_no_null(s) ==
    IF s = <<>> THEN Ok(GresStatus(<<>>, 0))
    ELSE LET caps == RE_captures(s)
         IN IF ~caps.some THEN Err("Matching Gres status failed!")
            ELSE LET count == parse_usize(caps.val.count)
                 IN IF ~count.some THEN Err("ParseIntError")
                    ELSE Ok(GresStatus(caps.val.model, count.val))

GresStatus_from_str_first_digit(s) ==
    IF s = <<>> \/ s = NullSentinel THEN Ok(GresStatus(<<>>, 0))
    ELSE LET caps == RE_captures(s)
         IN IF ~caps.some THEN Err("Matching Gres status failed!")
            ELSE LET count == parse_usize(SubSeq(caps.val.count, 1, 1))
                 IN IF ~count.some THEN Err("ParseIntError")
                    ELSE Ok(GresStatus(caps.val.model, count.val))

GresStatus_from_str(s) ==
    IF s = <<>> \/ s = NullSentinel THEN Ok(GresStatus(<<>>, 0))
    ELSE LET caps == RE_captures(s)
         IN IF ~caps.some THEN Err("Matching Gres status failed!")
            ELSE LET count == parse_usize(caps.val.count)
                 IN IF ~count.some THEN Err("ParseIntError")
                    ELSE Ok(GresStatus(caps.val.model, count.val))

(***************************************************************************)
(* Specification SpecGres: GresStatus::from_str on "(null)" and on every   *)
(* string of at most MaxGresLen characters over GresAlphabet.              *)
(***************************************************************************)
MaxGresLen == 6
GresAlphabet == {"a", "1", ":", "("}

InitGres ==
    /\ Idle
    /\ pc = "call"
    /\ arg \in StringsUpTo(GresAlphabet, MaxGresLen) \cup {NullSentinel}
    /\ ret = None

CallGresStatusFromStr ==
    /\ pc = "call"
    /\ ret' = GresStatus_from_str(arg)
    /\ pc' = "ret"
    /\ UNCHANGED <<cli, overflow_checks, slurm_nodes, slurm_jobs,
                   preempted_gpus, node_iter, tabled_nodes, stdout, arg>>

SpecGres == InitGres /\ [][CallGresStatusFromStr]_vars

\* --- C5 -----------------------------------------------------------------
IsWordSeq(e) == e # <<>> /\ \A i \in 1..Len(e) : is_word(e[i])

\* s[i..a] ":" s[a+2..b] ":" s[b+2..c] is <word>:<word>:<digits>
IsDescriptorAt(s, i, a, b, c) ==
    /\ i <= a /\ a + 2 <= b /\ b + 2 <= c /\ c <= Len(s)
    /\ IsWordSeq(SubSeq(s, i, a))
    /\ s[a + 1] = ":"
    /\ IsWordSeq(SubSeq(s, a + 2, b))
    /\ s[b + 1] = ":"
    /\ IsNumber(SubSeq(s, b + 2, c))

HasDescriptor(s) ==
    \E i \in 1..Len(s), a \in 1..Len(s), b \in 1..Len(s), c \in 1..Len(s) :
        IsDescriptorAt(s, i, a, b, c)

\* C5: a string "<m1>:<m2>:<n>" followed by any text (n being the whole run
\* of digits, so the text does not start with a digit) parses to
\* model = "<m1>:<m2>", count = n; a string other than "" and "(null)" that
\* contains no <word>:<word>:<digits> fails.
C5_FromStr ==
    pc = "ret" =>
        /\ \A a \in 1..Len(arg), b \in 1..Len(arg), c \in 1..Len(arg) :
              (/\ IsDescriptorAt(arg, 1, a, b, c)
               /\ c < Len(arg) => ~is_digit(arg[c + 1]))
              => ret = Ok(GresStatus(SubSeq(arg, 1, b),
                                     DecimalValue(SubSeq(arg, b + 2, c))))
        /\ (arg # <<>> /\ arg # NullSentinel /\ ~HasDescriptor(arg))
              => ret.kind = "Err"

\* "a:1:11": model "a:1", count 11 ...
C5_Witness ==
    /\ pc = "ret"
    /\ arg = <<"a", ":", "1", ":", "1", "1">>
    /\ ret = Ok(GresStatus(<<"a", ":", "1">>, 11))

\* ... and "a:(1:1" fails
C5_WitnessErr ==
    /\ pc = "ret"
    /\ arg = <<"a", ":", "(", "1", ":", "1">>
    /\ ret = Err("Matching Gres status failed!")

(***************************************************************************)
(* process_preempted_jobs                                                  *)
(***************************************************************************)
Job(partition, nodes, gres_detail) ==
    [partition |-> partition, nodes |-> nodes, gres_detail |-> gres_detail]

\* job.gres_detail.iter().filter_map(|gres| parse_gpu_allocation(gres, &job.nodes))
RECURSIVE job_allocations(_, _)
job_allocations(gres_detail, nodes) ==
    IF gres_detail = <<>> THEN <<>>
    ELSE LET a == parse_gpu_allocation(Head(gres_detail), nodes)
         IN (IF a.some THEN <<a.val>> ELSE <<>>)
            \o job_allocations(Tail(gres_detail), nodes)

\* a correlator that keeps one allocation per node
RECURSIVE process_preempted_jobs_dedup(_)
process_preempted_jobs_dedup(jobs) ==
    IF jobs = <<>> THEN <<>>
    ELSE LET init == process_preempted_jobs_dedup(SubSeq(jobs, 1, Len(jobs) - 1))
             job == jobs[Len(jobs)]
             new == IF job.partition = "preempted"
                    THEN job_allocations(job.gres_detail, job.nodes)
                    ELSE <<>>
         IN IF new = <<>> \/ \E i \in 1..Len(init) : init[i].node = job.nodes
            THEN init
            ELSE init \o <<new[1]>>

\* jobs.iter().filter(partition == "preempted").flat_map(...).collect()
RECURSIVE process_preempted_jobs(_)
process_preempted_jobs(jobs) ==
    IF jobs = <<>> THEN <<>>
    ELSE (IF Head(jobs).partition = "preempted"
          THEN job_allocations(Head(jobs).gres_detail, Head(jobs).nodes)
          ELSE <<>>)
         \o process_preempted_jobs(Tail(jobs))

(***************************************************************************)
(* Specification SpecJobs: process_preempted_jobs on every sequence of at  *)
(* most MaxJobs jobs over two partitions, two nodes and DetailLists.       *)
(***************************************************************************)
MaxJobs == 3

\* "gpu:a:1(IDX:0)" (1 GPU), "gpu:a:4(IDX:0-3)" (4 GPUs), "cpu:2" (none)
DetailOne == <<"g", "p", "u", ":", "a", ":", "1", "(", "I", "D", "X", ":", "0", ")">>
DetailFour ==
    <<"g", "p", "u", ":", "a", ":", "4", "(", "I", "D", "X", ":", "0", "-", "3", ")">>
DetailCpu == <<"c", "p", "u", ":", "2">>

DetailLists ==
    { <<>>, <<DetailFour, DetailOne>>, <<DetailCpu, DetailFour>>,
      <<DetailOne, DetailCpu, DetailOne>> }

Partitions == {"preempted", "gpu"}

Jobs == [partition : Partitions, nodes : Hostnames, gres_detail : DetailLists]

SeqsUpTo(S, n) == UNION {[1..k -> S] : k \in 0..n}

InitJobs ==
    /\ Idle
    /\ pc = "call"
    /\ arg \in SeqsUpTo(Jobs, MaxJobs)
    /\ ret = None

CallProcessPreemptedJobs ==
    /\ pc = "call"
    /\ ret' = Some(process_preempted_jobs(arg))
    /\ pc' = "ret"
    /\ UNCHANGED <<cli, overflow_checks, slurm_nodes, slurm_jobs,
                   preempted_gpus, node_iter, tabled_nodes, stdout, arg>>

SpecJobs == InitJobs /\ [][CallProcessPreemptedJobs]_vars

\* --- C1 -----------------------------------------------------------------
\* the (job, detail entry) pairs that yield an allocation
Yielding(jobs) ==
    UNION { { <<j, d>> : d \in { e \in DOMAIN jobs[j].gres_detail :
                  /\ jobs[j].partition = "preempted"
                  /\ parse_gpu_allocation(jobs[j].gres_detail[e],
                                          jobs[j].nodes).some } } :
            j \in DOMAIN jobs }

\* job order, then detail-entry order
Before(p, q) == p[1] < q[1] \/ (p[1] = q[1] /\ p[2] < q[2])
Rank(Y, p) == 1 + Cardinality({q \in Y : Before(q, p)})

\* C1: process_preempted_jobs returns exactly the allocations that
\* parse_gpu_allocation yields for the detail entries of the jobs of
\* partition "preempted", each with its job's nodes string, in job order and
\* then detail-entry order, neither sorted nor deduplicated by node.
C1_ProcessPreemptedJobs ==
    pc = "ret" =>
        LET Y == Yielding(arg)
        IN /\ Len(ret.val) = Cardinality(Y)
           /\ \A p \in Y :
                 /\ ret.val[Rank(Y, p)] =
                       parse_gpu_allocation(arg[p[1]].gres_detail[p[2]],
                                            arg[p[1]].nodes).val
                 /\ ret.val[Rank(Y, p)].node = arg[p[1]].nodes

\* two preempted jobs on n1 around a job of another partition: all four
\* allocations of n1 are kept, in order
C1_Witness ==
    /\ pc = "ret"
    /\ arg = << Job("preempted", "n1", <<DetailFour, DetailOne>>),
                Job("gpu", "n2", <<DetailCpu, DetailFour>>),
                Job("preempted", "n1", <<DetailOne, DetailCpu, DetailOne>>) >>
    /\ ret = Some(<< GpuAllocation("n1", 4), GpuAllocation("n1", 1),
                     GpuAllocation("n1", 1), GpuAllocation("n1", 1) >>)

(***************************************************************************)
(* TableNode::from_node                                                    *)
(***************************************************************************)
\* A ColoredString is a text with a colour; a rendered String is the
\* sequence of its spans.
Colored(text, color) == [text |-> text, color |-> color]

\* std::iter::repeat(character).take(number).collect::<String>().color(color)
repeat_colored_char(character, number, color) ==
    Colored([i \in 1..number |-> character], color)

\* format!("{}/{}", used, total), given the digits of used and of total
format_ratio(used, total) == used \o <<"/">> \o total

\* usize::saturating_sub
saturating_sub(a, b) == IF a >= b THEN a - b ELSE 0

\* format!("{}", (0usize.wrapping_sub(k)) / 1000) for 0 < k: 2^64 is
\* 18446744073709551 * 1000 + 616, so the quotient is 18446744073709551
\* less the thousands that k - 616 reaches into; it is written as the
\* digits "18446744" followed by the 9 digits of 073709551 - q.
wrapped_sub_div_1000(k) ==
    LET q == IF k <= 616 THEN 0 ELSE (k - 616 + 999) \div 1000
        low == Decimal(73709551 - q)
    IN <<"1", "8", "4", "4", "6", "7", "4", "4">>
       \o [i \in 1..(9 - Len(low)) |-> "0"] \o low

\* the match on s.as_str() in the state closure
state_color(s) ==
    CASE s = "IDLE" -> "green"
      [] s = "MIXED" -> "blue"
      [] s = "ALLOCATED" -> "magenta"
      [] s = "DRAIN" -> "yellow"
      [] s = "DOWN" -> "red"
      [] OTHER -> "plain"

\* .map(colour).collect::<Vec<String>>().join(",")
RECURSIVE join_states(_)
join_states(state) ==
    IF state = <<>> THEN <<>>
    ELSE IF Len(state) = 1 THEN <<Colored(state[1], state_color(state[1]))>>
    ELSE <<Colored(state[1], state_color(state[1])), Colored(",", "plain")>>
         \o join_states(Tail(state))

\* the lookup of a node's preempted count with every match summed
RECURSIVE preempted_count_summed(_, _)
preempted_count_summed(gpus, hostname) ==
    IF gpus = <<>> THEN 0
    ELSE (IF Head(gpus).node = hostname THEN Head(gpus).gpus ELSE 0)
         + preempted_count_summed(Tail(gpus), hostname)

\* preempted_gpus.iter().find(|gpu| gpu.node == node.hostname)
\*     .map(|gpu| gpu.gpus as usize).unwrap_or(0)
RECURSIVE preempted_count_of(_, _)
preempted_count_of(gpus, hostname) ==
    IF gpus = <<>> THEN 0
    ELSE IF Head(gpus).node = hostname THEN Head(gpus).gpus
    ELSE preempted_count_of(Tail(gpus), hostname)

TableNode(hostname, cpus_available, memory_available, gres, gres_status, state) ==
    [hostname |-> hostname, cpus_available |-> cpus_available,
     memory_available |-> memory_available, gres |-> gres,
     gres_status |-> gres_status, state |-> state]

\* The result is Ok(TableNode), the Err of from_str, or a panic.
\*  - used > total: `gres_total.count - gres_used.count` panics with
\*    overflow checks on; with them off it wraps to 2^64 - k and collecting
\*    that many characters into a String panics ("capacity overflow").
\*  - alloc_memory > real_memory: the subtraction panics with overflow
\*    checks on and wraps with them off.
TableNode_from_node(node, gpus, checks) ==
    LET gres_total == GresStatus_from_str(node.gres)
        gres_used == GresStatus_from_str(node.gres_used)
    IN IF gres_total.kind # "Ok" THEN gres_total
       ELSE IF gres_used.kind # "Ok" THEN gres_used
       ELSE IF gres_used.val.count > gres_total.val.count
       THEN Panic(IF checks THEN "attempt to subtract with overflow"
                  ELSE "capacity overflow")
       ELSE IF node.alloc_memory > node.real_memory /\ checks
       THEN Panic("attempt to subtract with overflow")
       ELSE
         LET idle_count == gres_total.val.count - gres_used.val.count
             preempted_count == preempted_count_of(gpus, node.hostname)
             regular_used_count ==
                 saturating_sub(gres_used.val.count, preempted_count)
             regular_used_print ==
                 repeat_colored_char("u", regular_used_count, "red")
             preempted_print == repeat_colored_char("p", preempted_count, "yellow")
             idle_print == repeat_colored_char("i", idle_count, "green")
             memory_idle ==
                 IF node.alloc_memory > node.real_memory
                 THEN wrapped_sub_div_1000(node.alloc_memory - node.real_memory)
                 ELSE Decimal((node.real_memory - node.alloc_memory) \div 1000)
         IN Ok(TableNode(
                node.hostname,
                format_ratio(Decimal(node.alloc_idle_cpus), Decimal(node.cpus)),
                format_ratio(memory_idle, Decimal(node.real_memory \div 1000))
                    \o <<"G">>,
                gres_total.val.model,
                <<regular_used_print, preempted_print, idle_print>>,
                join_states(node.state)))

(***************************************************************************)
(* Specification SpecNode: TableNode::from_node on one node and a          *)
(* correlator output of at most MaxAllocs allocations of 1..MaxGpus GPUs.  *)
(***************************************************************************)
MaxAllocs == 2
MaxGpus == 2

GresEight == <<"g", "p", "u", ":", "a", ":", "8">>
GresThree == <<"g", "p", "u", ":", "a", ":", "3">>
GresBad == <<"g", "p", "u">>
NodeGresStrings == {<<>>, NullSentinel, GresEight, GresThree, GresBad}

\* [real_memory, alloc_memory] in MB: consistent, and over-allocated
NodeMemories == {<<128000, 32000>>, <<1000, 2000>>}

Node(hostname, state, partitions, mem, gres, gres_used) ==
    [hostname |-> hostname, state |-> state, partitions |-> partitions,
     cpus |-> 64, alloc_idle_cpus |-> 12,
     real_memory |-> mem[1], alloc_memory |-> mem[2],
     gres |-> gres, gres_used |-> gres_used]

ViewNodes ==
    { Node(h, <<"MIXED", "DRAIN">>, <<"gpu">>, m, g, u) :
        h \in Hostnames, m \in NodeMemories,
        g \in NodeGresStrings, u \in NodeGresStrings }

Allocations == [node : Hostnames, gpus : 1..MaxGpus]

InitNode ==
    /\ cli = [gres |-> None, partition |-> None, style |-> None]
    /\ overflow_checks \in BOOLEAN
    /\ slurm_nodes = <<>>
    /\ slurm_jobs = <<>>
    /\ preempted_gpus = <<>>
    /\ node_iter = 0
    /\ tabled_nodes = <<>>
    /\ stdout = <<>>
    /\ pc = "call"
    /\ arg \in [node : ViewNodes, preempted_gpus : SeqsUpTo(Allocations, MaxAllocs)]
    /\ ret = None

CallFromNode ==
    /\ pc = "call"
    /\ ret' = TableNode_from_node(arg.node, arg.preempted_gpus, overflow_checks)
    /\ pc' = "ret"
    /\ UNCHANGED <<cli, overflow_checks, slurm_nodes, slurm_jobs,
                   preempted_gpus, node_iter, tabled_nodes, stdout, arg>>

SpecNode == InitNode /\ [][CallFromNode]_vars

\* --- C4, C6, C7, C10 -----------------------------------------------------
Rep(c, n) == [i \in 1..n |-> c]

\* the glyph string: the text of gres_status without its colours
GlyphString(tn) ==
    tn.gres_status[1].text \o tn.gres_status[2].text \o tn.gres_status[3].text

IsSentinel(s) == s = <<>> \/ s = NullSentinel

BothParse ==
    /\ GresStatus_from_str(arg.node.gres).kind = "Ok"
    /\ GresStatus_from_str(arg.node.gres_used).kind = "Ok"

TotalCount == GresStatus_from_str(arg.node.gres).val.count
UsedCount == GresStatus_from_str(arg.node.gres_used).val.count

\* the gpus of the first entry for the hostname, 0 without one
FirstEntryGpus(gpus, hostname) ==
    LET named == {i \in DOMAIN gpus : gpus[i].node = hostname}
    IN IF named = {} THEN 0
       ELSE gpus[CHOOSE i \in named : \A j \in named : i <= j].gpus

PreemptedCount == FirstEntryGpus(arg.preempted_gpus, arg.node.hostname)

ExpectedGlyphs ==
    Rep("u", IF UsedCount > PreemptedCount THEN UsedCount - PreemptedCount ELSE 0)
    \o Rep("p", PreemptedCount)
    \o Rep("i", TotalCount - UsedCount)

\* C4: for every node whose gres and gres_used parse to T and U, with
\* preempted count P, from_node builds the glyph string max(0, U - P) 'u',
\* then P 'p', then T - U 'i'.  (Stated for nodes whose memory fields are
\* consistent, so that what refutes it is the GRES subtraction.)
C4_GlyphString ==
    (/\ pc = "ret" /\ BothParse
     /\ arg.node.alloc_memory <= arg.node.real_memory)
    => /\ ret.kind = "Ok"
       /\ GlyphString(ret.val) = ExpectedGlyphs

\* what does hold: every TableNode that is built has these glyphs, and T
\* of them when P <= U <= T
C4_GlyphStringWhenBuilt ==
    (pc = "ret" /\ ret.kind = "Ok") =>
        /\ GlyphString(ret.val) = ExpectedGlyphs
        /\ (PreemptedCount <= UsedCount /\ UsedCount <= TotalCount)
              => Len(GlyphString(ret.val)) = TotalCount

\* T = 8, U = 3, P = 2: "u", "pp", "iiiii"
C4_Witness ==
    /\ pc = "ret"
    /\ arg.node.gres = GresEight
    /\ arg.node.gres_used = GresThree
    /\ arg.node.hostname = "n1"
    /\ arg.preempted_gpus = <<GpuAllocation("n1", 2)>>
    /\ ret.kind = "Ok"
    /\ GlyphString(ret.val) = <<"u", "p", "p", "i", "i", "i", "i", "i">>

C7_NoPanicOnUnderflow ==
    (pc = "ret" /\ BothParse /\ UsedCount > TotalCount) => ret.kind # "panic"

\* C10: the preempted count of a node is the gpus of the first entry of the
\* correlator output whose node equals the hostname, later entries being
\* ignored, and 0 when no entry does.
C10_FirstMatch ==
    (pc = "ret" /\ ret.kind = "Ok") =>
        /\ ret.val.gres_status[2] = Colored(Rep("p", PreemptedCount), "yellow")
        /\ Len(ret.val.gres_status[1].text) =
              saturating_sub(UsedCount, PreemptedCount)

\* n1 listed with 2 and then with 1: the count is 2
C10_Witness ==
    /\ pc = "ret"
    /\ arg.node.hostname = "n1"
    /\ arg.node.gres = GresEight
    /\ arg.node.gres_used = GresEight
    /\ arg.preempted_gpus = <<GpuAllocation("n1", 2), GpuAllocation("n1", 1)>>
    /\ ret.kind = "Ok"
    /\ Len(ret.val.gres_status[2].text) = 2

(***************************************************************************)
(* main                                                                    *)
(***************************************************************************)
\* the filter closure: cli.gres.is_none() || node.gres.contains(gres), and
\* with a partition given, &= node.partitions.contains(partition)
node_matches_partition_only(c, node) ==
    IF c.partition.some
    THEN \E k \in DOMAIN node.partitions : node.partitions[k] = c.partition.val
    ELSE ~c.gres.some \/ contains(node.gres, unwrap_or(c.gres, <<>>))

node_matches(c, node) ==
    LET gres_matched ==
            ~c.gres.some \/ contains(node.gres, unwrap_or(c.gres, <<>>))
    IN IF c.partition.some
       THEN gres_matched
            /\ \E k \in DOMAIN node.partitions :
                  node.partitions[k] = c.partition.val
       ELSE gres_matched

\* apply_style_to_table
apply_style_to_table(style) ==
    CASE style = None -> "markdown"
      [] style = Some("Markdown") -> "markdown"
      [] style = Some("Ascii") -> "ascii"
      [] style = Some("Modern") -> "modern"

(***************************************************************************)
(* Specification Spec: one run of main.  The command line, the build       *)
(* profile and what the two scontrol queries answer are the inputs: at     *)
(* most MaxNodes nodes named n1, n2, ... in query order (hostnames are     *)
(* unique in a snapshot), and one of JobLists.                             *)
(***************************************************************************)
MaxNodes == 2

NodeNames == <<"n1", "n2", "n3", "n4">>

CliGres == {None, Some(<<"g", "p", "u">>), Some(<<":", "8">>)}
CliPartitions == {None, Some("gpu")}
CliStyles == {None, Some("Ascii")}

\* [partitions, gres, gres_used]: 3 of 8 GPUs used; a gres string that does
\* not parse; more used than there are; no GRES
NodeVariants ==
    { << <<"gpu">>, GresEight, GresThree >>,
      << <<"gpu">>, GresBad, <<>> >>,
      << <<"gpu">>, GresThree, GresEight >>,
      << <<"cpu", "gpux">>, <<>>, <<>> >>,
      << <<"cpu", "gpux">>, GresEight, GresThree >>,
      << <<"cpu", "gpux">>, GresBad, <<>> >> }

NodeListsOf(n) ==
    { [i \in 1..n |-> Node(NodeNames[i], <<"IDLE">>, f[i][1],
                           <<128000, 32000>>, f[i][2], f[i][3])] :
        f \in [1..n -> NodeVariants] }
NodeLists == UNION {NodeListsOf(n) : n \in 0..MaxNodes}

JobLists ==
    { <<>>,
      << Job("preempted", "n1", <<DetailFour, DetailOne>>),
         Job("gpu", "n2", <<DetailCpu, DetailFour>>) >>,
      << Job("preempted", "n2", <<DetailOne, DetailCpu, DetailOne>>),
         Job("preempted", "n2", <<DetailFour, DetailOne>>) >> }

\* what run_scontrol_command can fail with
ScontrolErrors == {"Scontrol failed", "io", "utf8", "json"}

Init ==
    /\ pc = "query_nodes"
    /\ cli \in [gres : CliGres, partition : CliPartitions, style : CliStyles]
    /\ overflow_checks \in BOOLEAN
    /\ slurm_nodes = None
    /\ slurm_jobs = None
    /\ preempted_gpus = <<>>
    /\ node_iter = 0
    /\ tabled_nodes = <<>>
    /\ stdout = <<>>
    /\ arg = None
    /\ ret = None

\* let slurm_nodes = query_nodes()?;
QueryNodesOk ==
    /\ pc = "query_nodes"
    /\ \E ns \in NodeLists : slurm_nodes' = Ok(ns)
    /\ pc' = "query_jobs"
    /\ UNCHANGED <<cli, overflow_checks, slurm_jobs, preempted_gpus, node_iter,
                   tabled_nodes, stdout, arg, ret>>

QueryNodesErr ==
    /\ pc = "query_nodes"
    /\ \E e \in ScontrolErrors : slurm_nodes' = Err(e) /\ ret' = Err(e)
    /\ pc' = "error"
    /\ UNCHANGED <<cli, overflow_checks, slurm_jobs, preempted_gpus, node_iter,
                   tabled_nodes, stdout, arg>>

\* let slurm_jobs = query_jobs()?;
QueryJobsOk ==
    /\ pc = "query_jobs"
    /\ \E js \in JobLists : slurm_jobs' = Ok(js)
    /\ pc' = "process"
    /\ UNCHANGED <<cli, overflow_checks, slurm_nodes, preempted_gpus, node_iter,
                   tabled_nodes, stdout, arg, ret>>

QueryJobsErr ==
    /\ pc = "query_jobs"
    /\ \E e \in ScontrolErrors : slurm_jobs' = Err(e) /\ ret' = Err(e)
    /\ pc' = "error"
    /\ UNCHANGED <<cli, overflow_checks, slurm_nodes, preempted_gpus, node_iter,
                   tabled_nodes, stdout, arg>>

\* let preempted_gpus = process_preempted_jobs(&slurm_jobs.jobs);
ProcessPreemptedJobs ==
    /\ pc = "process"
    /\ preempted_gpus' = process_preempted_jobs(slurm_jobs.val)
    /\ pc' = "build"
    /\ UNCHANGED <<cli, overflow_checks, slurm_nodes, slurm_jobs, node_iter,
                   tabled_nodes, stdout, arg, ret>>

\* The chain nodes.iter().filter(..).map(from_node).collect::<Result<_>>()
\* is lazy: it takes the nodes one at a time, in order, and stops at the
\* first Err.  Each action below is what it does with the next node.
HasNextNode == pc = "build" /\ node_iter < Len(slurm_nodes.val)
NextNode == slurm_nodes.val[node_iter + 1]
NextRow == TableNode_from_node(NextNode, preempted_gpus, overflow_checks)

FilterOutNode ==
    /\ HasNextNode
    /\ ~node_matches(cli, NextNode)
    /\ node_iter' = node_iter + 1
    /\ UNCHANGED <<pc, cli, overflow_checks, slurm_nodes, slurm_jobs,
                   preempted_gpus, tabled_nodes, stdout, arg, ret>>

BuildNodeOk ==
    /\ HasNextNode
    /\ node_matches(cli, NextNode)
    /\ NextRow.kind = "Ok"
    /\ tabled_nodes' = Append(tabled_nodes, NextRow.val)
    /\ node_iter' = node_iter + 1
    /\ UNCHANGED <<pc, cli, overflow_checks, slurm_nodes, slurm_jobs,
                   preempted_gpus, stdout, arg, ret>>

\* a chain that drops the node that fails to parse and goes on
BuildNodeErrSkipped ==
    /\ HasNextNode
    /\ node_matches(cli, NextNode)
    /\ NextRow.kind = "Err"
    /\ node_iter' = node_iter + 1
    /\ UNCHANGED <<pc, cli, overflow_checks, slurm_nodes, slurm_jobs,
                   preempted_gpus, tabled_nodes, stdout, arg, ret>>

\* let tabled_nodes = matched?;  with matched an Err
BuildNodeErr ==
    /\ HasNextNode
    /\ node_matches(cli, NextNode)
    /\ NextRow.kind = "Err"
    /\ node_iter' = node_iter + 1
    /\ ret' = NextRow
    /\ pc' = "error"
    /\ UNCHANGED <<cli, overflow_checks, slurm_nodes, slurm_jobs,
                   preempted_gpus, tabled_nodes, stdout, arg>>

BuildNodePanic ==
    /\ HasNextNode
    /\ node_matches(cli, NextNode)
    /\ NextRow.kind = "panic"
    /\ node_iter' = node_iter + 1
    /\ ret' = NextRow
    /\ pc' = "panic"
    /\ UNCHANGED <<cli, overflow_checks, slurm_nodes, slurm_jobs,
                   preempted_gpus, tabled_nodes, stdout, arg>>

\* Table::new(tabled_nodes); apply_style_to_table; println!; Ok(())
PrintTable ==
    /\ pc = "build"
    /\ node_iter = Len(slurm_nodes.val)
    /\ stdout' = Append(stdout, [style |-> apply_style_to_table(cli.style),
                                 rows |-> tabled_nodes])
    /\ ret' = Ok(<<>>)
    /\ pc' = "done"
    /\ UNCHANGED <<cli, overflow_checks, slurm_nodes, slurm_jobs,
                   preempted_gpus, node_iter, tabled_nodes, arg>>

Next ==
    \/ QueryNodesOk
    \/ QueryNodesErr
    \/ QueryJobsOk
    \/ QueryJobsErr
    \/ ProcessPreemptedJobs
    \/ FilterOutNode
    \/ BuildNodeOk
    \/ BuildNodeErr
    \/ BuildNodePanic
    \/ PrintTable

Spec == Init /\ [][Next]_vars

\* --- C8, C9 --------------------------------------------------------------
\* a node qualifies iff it passes the GRES filter (none given, or node.gres
\* has it as a substring) and the partition filter (none given, or the name
\* is one of the node's partitions)
Qualifies(node) ==
    /\ cli.gres = None
       \/ \E i \in 1..(Len(node.gres) - Len(cli.gres.val) + 1) :
             \A k \in 1..Len(cli.gres.val) : node.gres[i + k - 1] = cli.gres.val[k]
    /\ cli.partition = None
       \/ cli.partition.val \in {node.partitions[k] : k \in DOMAIN node.partitions}

QueriesOk == slurm_nodes # None /\ slurm_nodes.kind = "Ok"
             /\ slurm_jobs # None /\ slurm_jobs.kind = "Ok"

Qualifying == {i \in DOMAIN slurm_nodes.val : Qualifies(slurm_nodes.val[i])}

Unparsable(node) ==
    \/ GresStatus_from_str(node.gres).kind = "Err"
    \/ GresStatus_from_str(node.gres_used).kind = "Err"

\* a stage has failed: a query, or the parse of a qualifying node that the
\* chain has taken
StageFailed ==
    \/ slurm_nodes # None /\ slurm_nodes.kind = "Err"
    \/ slurm_jobs # None /\ slurm_jobs.kind = "Err"
    \/ /\ QueriesOk
       /\ \E i \in Qualifying : i <= node_iter /\ Unparsable(slurm_nodes.val[i])

\* C8: a failure at any stage (node query, job query, GRES parse of a node
\* that passes the filters) ends the run with an error and nothing on
\* standard output; a table is written only after both queries succeeded
\* and a TableNode was built for every surviving node, and it is written
\* whole, once.
C8_NoPartialTable ==
    /\ StageFailed => pc = "error" /\ ret.kind = "Err" /\ stdout = <<>>
    /\ stdout # <<>> =>
          /\ pc = "done"
          /\ QueriesOk
          /\ node_iter = Len(slurm_nodes.val)
          /\ Len(tabled_nodes) = Cardinality(Qualifying)
          /\ Len(stdout) = 1
          /\ stdout[1].rows = tabled_nodes

\* a run whose second node fails to parse after a row was built for the first
C8_Witness ==
    /\ pc = "error"
    /\ QueriesOk
    /\ Len(tabled_nodes) = 1
    /\ node_iter = 2
    /\ ret = Err("Matching Gres status failed!")
    /\ stdout = <<>>

\* the place of qualifying node i among the qualifying nodes
QualifyingRank(i) == Cardinality({j \in Qualifying : j <= i})

\* C9: on a successful run the table has exactly one row per qualifying
\* node, in node query order; a node that does not qualify has no row and is
\* never parsed, so it cannot make the run fail.
C9_OneRowPerQualifyingNode ==
    /\ pc = "done" =>
          /\ Len(stdout) = 1
          /\ Len(stdout[1].rows) = Cardinality(Qualifying)
          /\ \A i \in Qualifying :
                /\ stdout[1].rows[QualifyingRank(i)].hostname
                      = slurm_nodes.val[i].hostname
                /\ Ok(stdout[1].rows[QualifyingRank(i)])
                      = TableNode_from_node(slurm_nodes.val[i], preempted_gpus,
                                            overflow_checks)
    /\ (QueriesOk /\ pc = "error") =>
          \E i \in Qualifying : Unparsable(slurm_nodes.val[i])

\* GRES filter "gpu" and partition filter "gpu": n1 (partition "gpux", a
\* gres that does not parse) is left out unparsed, n2 has the only row
C9_Witness ==
    /\ pc = "done"
    /\ cli.gres = Some(<<"g", "p", "u">>)
    /\ cli.partition = Some("gpu")
    /\ Len(slurm_nodes.val) = 2
    /\ slurm_nodes.val[1].partitions = <<"cpu", "gpux">>
    /\ slurm_nodes.val[1].gres = GresBad
    /\ Len(stdout[1].rows) = 1
    /\ stdout[1].rows[1].hostname = "n2"

====
